---------------------------- MODULE Spec2Model ----------------------------
(***************************************************************************)
(* Shamir secret sharing over a binary Galois field (package shamir).      *)
(*                                                                         *)
(* The program works on 16-bit words over GF(2^16), each word being two    *)
(* 8-bit bytes.  The model keeps the structure (a word is two bytes, the   *)
(* field is the binary field on the word's bits) and scales the byte down  *)
(* to ByteBits bits, so that TLC can enumerate whole fields.               *)
(***************************************************************************)
EXTENDS Integers, Sequences, FiniteSets, TLC

(***************************************************************************)
(* Bounds of the model.                                                    *)
(***************************************************************************)
ByteBits == 1
    \* bits of one byte (8 in the program); a word has 2 * ByteBits bits
MaxN == 3
    \* largest n and threshold a caller passes to Split
MaxSecretLen == 4
    \* longest byte secret a caller passes to Split
MaxStream == 5
    \* the random source yields at most this many words before it fails
MaxShares == 3
    \* longest list of byte shares of one length a caller passes to Combine
MaxRagged == 2
    \* longest list of byte shares of any lengths a caller passes to Combine
MaxShareLen == 4
    \* longest byte share a caller passes to Combine
NumGoroutines == 2
    \* goroutines that call Split or Combine on one Dealer at the same time

(***************************************************************************)
(* Bytes, words and the field.                                             *)
(***************************************************************************)
ByteBase == 2 ^ ByteBits
Byte == 0 .. (ByteBase - 1)
FieldBits == 2 * ByteBits
FieldSize == 2 ^ FieldBits
Word == 0 .. (FieldSize - 1)

\* gf65536.Default: the modulus polynomial of the default field, here the
\* primitive polynomial of the scaled field (x^2+x+1, x^4+x+1, x^6+x+1).
defaultField ==
    CASE FieldBits = 2 -> 7
      [] FieldBits = 4 -> 19
      [] OTHER -> 67
defaultRandSrc == "rand.Reader"
defaultByteOrder == "BigEndian"

RECURSIVE Xor(_, _)
Xor(a, b) ==
    IF a = 0 THEN b
    ELSE IF b = 0 THEN a
    ELSE ((a + b) % 2) + 2 * Xor(a \div 2, b \div 2)

\* multiplication by x modulo the field polynomial
Times2(f, a) == IF 2 * a >= FieldSize THEN Xor(2 * a, f) ELSE 2 * a

RECURSIVE MulRaw(_, _, _)
MulRaw(f, a, b) ==
    IF b = 0 THEN 0
    ELSE Xor(IF b % 2 = 1 THEN a ELSE 0, MulRaw(f, Times2(f, a), b \div 2))

AddTable == [a \in Word |-> [b \in Word |-> Xor(a, b)]]
MulTable == [a \in Word |-> [b \in Word |-> MulRaw(defaultField, a, b)]]
InvTable == [a \in Word \ {0} |-> CHOOSE b \in Word : MulTable[a][b] = 1]

\* gf65536.Field: Add, Mul, Inv (Inv is undefined at 0)
Add(a, b) == AddTable[a][b]
Mul(a, b) == MulTable[a][b]
Inv(a) == InvTable[a]

\* The random source yields at most this many words that distinctXes rejects
\* (zero, or drawn before): a stream of MaxStream words then still holds the
\* x-coordinates of MaxN shares and a coefficient.
MaxRejects == MaxStream - MaxN - 1

\* The values that the callers and the random source supply: the bytes and
\* the words of the smallest field, which is contained in every larger one.
CallerBytes == {0, 1}
RandWords == {0, 1, 2, 3}

(***************************************************************************)
(* encoding/binary: words to bytes and back in a byte order.               *)
(***************************************************************************)
ByteOrders == {"BigEndian", "LittleEndian"}

\* ByteOrder.Uint16
Uint16(order, b0, b1) ==
    IF order = "BigEndian" THEN b0 * ByteBase + b1 ELSE b0 + b1 * ByteBase

\* ByteOrder.PutUint16: the two bytes of w
PutUint16(order, w) ==
    IF order = "BigEndian" THEN <<w \div ByteBase, w % ByteBase>>
    ELSE <<w % ByteBase, w \div ByteBase>>

\* binary.Decode(buf, order, data) with data a []uint16 of nwords words: an
\* error when buf is shorter than the data, else the words of buf's prefix.
Decode(buf, order, nwords) ==
    IF Len(buf) < 2 * nwords
    THEN [err |-> "buffer too small", words |-> <<>>]
    ELSE [err |-> "nil",
          words |-> [i \in 1 .. nwords |->
                        Uint16(order, buf[2 * i - 1], buf[2 * i])]]

\* binary.Encode(buf, order, data) with buf of buflen bytes (zeroed by make)
Encode(buflen, order, words) ==
    IF buflen < 2 * Len(words)
    THEN [err |-> "buffer too small", bytes |-> <<>>]
    ELSE [err |-> "nil",
          bytes |-> [p \in 1 .. buflen |->
                        IF p <= 2 * Len(words)
                        THEN PutUint16(order, words[(p + 1) \div 2])[2 - (p % 2)]
                        ELSE 0]]

(***************************************************************************)
(* Polynomials and Gaussian elimination.  Sequences are 1-based: row r and *)
(* column c of the code are row r+1 and column c+1 here.                   *)
(***************************************************************************)
\* pows: v = [x^0, x^1, ...], len words
RECURSIVE powsFrom(_, _, _)
powsFrom(len, x, p) ==
    IF len = 0 THEN <<>> ELSE <<p>> \o powsFrom(len - 1, x, Mul(p, x))
\* pows with the running power starting at x instead of 1
powsStartsAtX(len, x) == powsFrom(len, x, x)
pows(len, x) == powsFrom(len, x, 1)

\* evalPoly: the loop from index i with running power p and result r
RECURSIVE evalPolyFrom(_, _, _, _, _)
evalPolyFrom(coeff, x, i, p, r) ==
    IF i > Len(coeff) THEN r
    ELSE evalPolyFrom(coeff, x, i + 1, Mul(p, x), Add(r, Mul(p, coeff[i])))

\* evalPoly with its loop stopping one coefficient early
evalPolyStopsEarly(coeff, x) == evalPolyFrom(SubSeq(coeff, 1, Len(coeff) - 1), x, 1, 1, 0)
evalPoly(coeff, x) == evalPolyFrom(coeff, x, 1, 1, 0)

scalePoly(coeff, x) == [i \in 1 .. Len(coeff) |-> Mul(coeff[i], x)]
addPoly(a, b) == [i \in 1 .. Len(a) |-> Add(a[i], b[i])]

\* findNonzero that never reports a missing pivot
findNonzeroAssumesFound(m, r) ==
    LET rows == {i \in r .. Len(m) : m[i][r] # 0}
    IN  IF rows = {} THEN r ELSE CHOOSE i \in rows : \A j \in rows : i <= j

\* findNonzero: the first row at or below r with a nonzero entry in column
\* r, or -1
findNonzero(m, r) ==
    LET rows == {i \in r .. Len(m) : m[i][r] # 0}
    IN  IF rows = {} THEN -1 ELSE CHOOSE i \in rows : \A j \in rows : i <= j

\* m[r], m[i] = m[i], m[r]
swapRows(m, r, i) ==
    [k \in 1 .. Len(m) |-> IF k = r THEN m[i] ELSE IF k = i THEN m[r] ELSE m[k]]

\* one pass of gauss's first loop without the addition of row r to the rows
\* below it
eliminateScaleOnly(m, r) ==
    [i \in 1 .. Len(m) |->
        IF i >= r /\ m[i][r] # 0 THEN scalePoly(m[i], Inv(m[i][r])) ELSE m[i]]

\* one pass of gauss's first loop, for pivot r, after the pivot row is in
\* place: rows r.. are scaled to a leading 1, then row r is added to the
\* rows below it that have an entry in column r
eliminate(m, r) ==
    LET scaled == [i \in 1 .. Len(m) |->
                      IF i >= r /\ m[i][r] # 0
                      THEN scalePoly(m[i], Inv(m[i][r])) ELSE m[i]]
    IN  [i \in 1 .. Len(m) |->
            IF i > r /\ scaled[i][r] # 0
            THEN addPoly(scaled[i], scaled[r]) ELSE scaled[i]]

\* gauss's first loop from pivot r on: upper triangular form, or singular
RECURSIVE triangular(_, _)
triangular(m, r) ==
    IF r > Len(m) THEN [err |-> "nil", m |-> m]
    ELSE IF m[r][r] = 0
         THEN LET i == findNonzero(m, r)
              IN  IF i = -1
                  THEN [err |-> "matrix is singular", m |-> m]
                  ELSE triangular(eliminate(swapRows(m, r, i), r), r + 1)
         ELSE triangular(eliminate(m, r), r + 1)

\* gauss's second loop from row r on: row r, scaled by the entry of the
\* first row in column r, is added to the first row
RECURSIVE backSubstitute(_, _)
backSubstitute(m, r) ==
    IF r > Len(m) THEN m
    ELSE LET mr == scalePoly(m[r], m[1][r])
             m0 == addPoly(m[1], mr)
         IN  backSubstitute(
                 [k \in 1 .. Len(m) |->
                     IF k = 1 THEN m0 ELSE IF k = r THEN mr ELSE m[k]],
                 r + 1)

\* gauss without its second loop
gaussNoBackSubstitute(m) == triangular(m, 1)
gauss(m) ==
    LET t == triangular(m, 1)
    IN  IF t.err # "nil" THEN t ELSE [err |-> "nil", m |-> backSubstitute(t.m, 2)]

\* combineSingle: the secret word of one column
combineSingle(xvals, yvals) ==
    LET k == Len(xvals)
        m == [i \in 1 .. k |-> pows(k, xvals[i]) \o <<yvals[i]>>]
        g == gauss(m)
    IN  IF g.err # "nil" THEN [err |-> g.err, secret |-> 0]
        ELSE [err |-> "nil", secret |-> g.m[1][k + 1]]

\* combine: the secret words of a list of word shares.  A negative length
\* given to make is a run-time panic.
combine(wshares) ==
    IF Len(wshares) = 0 THEN [kind |-> "error", err |-> "nil shares", words |-> <<>>]
    ELSE
      LET secretLen == Len(wshares[1]) - 1
      IN  IF \E r \in 2 .. Len(wshares) : Len(wshares[r]) # secretLen + 1
          THEN [kind |-> "error", err |-> "inconsistent share length",
                words |-> <<>>]
          ELSE IF secretLen < 0
          THEN [kind |-> "panic", err |-> "makeslice: len out of range",
                words |-> <<>>]
          ELSE
            LET xv == [r \in 1 .. Len(wshares) |-> wshares[r][1]]
                col(c) == combineSingle(xv,
                              [r \in 1 .. Len(wshares) |-> wshares[r][c]])
                bad == {c \in 2 .. secretLen + 1 : col(c).err # "nil"}
            IN  IF bad # {}
                THEN [kind |-> "error",
                      err |-> col(CHOOSE c \in bad : \A e \in bad : c <= e).err,
                      words |-> <<>>]
                ELSE [kind |-> "ok", err |-> "nil",
                      words |-> [c \in 1 .. secretLen |-> col(c + 1).secret]]

(***************************************************************************)
(* The Dealer.                                                             *)
(***************************************************************************)
\* Dealer.init: the defaults for the unset fields
init(dl) ==
    [F |-> IF dl.F = 0 THEN defaultField ELSE dl.F,
     Rand |-> IF dl.Rand = "nil" THEN defaultRandSrc ELSE dl.Rand,
     ByteOrder |-> IF dl.ByteOrder = "nil" THEN defaultByteOrder
                   ELSE dl.ByteOrder]

\* Dealer.Combine on a Dealer whose fields are set: every share is decoded
\* into len(shares[0])/2 words
DealerCombine(dl, bshares) ==
    IF Len(bshares) = 0
    THEN [kind |-> "error", err |-> "nil shares", secret |-> <<>>]
    ELSE
      LET nw == Len(bshares[1]) \div 2
          dec == [r \in 1 .. Len(bshares) |-> Decode(bshares[r], dl.ByteOrder, nw)]
          bad == {r \in 1 .. Len(bshares) : dec[r].err # "nil"}
      IN  IF bad # {}
          THEN [kind |-> "error",
                err |-> dec[CHOOSE r \in bad : \A e \in bad : r <= e].err,
                secret |-> <<>>]
          ELSE
            LET c == combine([r \in 1 .. Len(bshares) |-> dec[r].words])
            IN  IF c.kind # "ok"
                THEN [kind |-> c.kind, err |-> c.err, secret |-> <<>>]
                ELSE [kind |-> "ok", err |-> "nil",
                      secret |-> Encode(2 * Len(c.words), dl.ByteOrder,
                                        c.words).bytes]

\* split's checks without the check of an empty secret
splitCheckNoNilSecret(t, nn, nwords) ==
    IF t > nn THEN "threshold must be less than or equal to n"
    ELSE IF t < 1 THEN "threshold must be greater than 0"
    ELSE IF nn < 1 THEN "n must be greater than 0"
    ELSE "nil"

\* split's checks of its parameters, in the code's order
splitCheck(t, nn, nwords) ==
    IF t > nn THEN "threshold must be less than or equal to n"
    ELSE IF t < 1 THEN "threshold must be greater than 0"
    ELSE IF nn < 1 THEN "n must be greater than 0"
    ELSE IF nwords = 0 THEN "nil secret"
    ELSE "nil"

(***************************************************************************)
(* State.                                                                  *)
(***************************************************************************)
VARIABLES
    d,          \* the Dealer: its fields F, Rand, ByteOrder
    pc,         \* where the call on the Dealer stands
    threshold,  \* Split's threshold
    n,          \* Split's n
    secret,     \* Split's secret, bytes
    stream,     \* the words read from the random source so far
    xvals,      \* split's xvals, filled by distinctXes
    i,          \* distinctXes's loop index: xvals[1 .. i-1] are accepted
    polys,      \* splitSingle's polynomial, one for each word done so far
    z,          \* split's buffer z: the y-values of the last word done
    shares,     \* split's word shares
    sret,       \* what Split returned
    cin,        \* the byte shares given to Combine
    cret,       \* what Combine returned
    g           \* the goroutines that use the Dealer at the same time: for
                \* each its call, its next access of a Dealer field, where
                \* it stands in a write, and how its call ends

vars == <<d, pc, threshold, n, secret, stream, xvals, i, polys, z, shares,
          sret, cin, cret, g>>
splitVars == <<threshold, n, secret, stream, xvals, i, polys, z, shares, sret>>
combineVars == <<cin, cret>>

RECURSIVE SeqsUpTo(_, _)
SeqsUpTo(S, len) ==
    IF len = 0 THEN {<<>>}
    ELSE LET shorter == SeqsUpTo(S, len - 1)
         IN  shorter \cup {Append(q, e) : q \in {r \in shorter : Len(r) = len - 1},
                                          e \in S}

\* a Dealer as a caller may construct it: the zero value, or every field set
Dealers ==
    {[F |-> 0, Rand |-> "nil", ByteOrder |-> "nil"],
     [F |-> defaultField, Rand |-> "reader", ByteOrder |-> "LittleEndian"]}

NoReturn == [err |-> "none", shares |-> <<>>]
NoResult == [kind |-> "none", err |-> "none", secret |-> <<>>]

Init ==
    /\ d \in Dealers
    /\ pc = "idle"
    /\ threshold = 0
    /\ n = 0
    /\ secret = <<>>
    /\ stream = <<>>
    /\ xvals = <<>>
    /\ i = 1
    /\ polys = <<>>
    /\ z = <<>>
    /\ shares = <<>>
    /\ sret = NoReturn
    /\ cin = <<>>
    /\ cret = NoResult
    /\ g = <<>>

\* the words of the secret, as Dealer.Split decodes them
secretWords == Decode(secret, d.ByteOrder, Len(secret) \div 2).words

\* distinctXes's map xes: the values accepted so far
xes == {xvals[j] : j \in 1 .. i - 1}

\* distinctXes's test without the lookup in xes
acceptedNonZero(v) == v # 0

\* distinctXes's test of a draw: it is kept unless zero or already in xes
accepted(v) == v # 0 /\ v \notin xes

\* Dealer.Split's return of the word shares, encoded
byteShares(ws) ==
    [j \in 1 .. Len(ws) |-> Encode(Len(secret) + 2, d.ByteOrder, ws[j]).bytes]

\* Dealer.Split up to the call of distinctXes: init, the checks of the secret
\* and of the parameters, the allocation of xvals, z and shares
Split(t, nn, s) ==
    /\ pc = "idle"
    /\ d' = init(d)
    /\ threshold' = t
    /\ n' = nn
    /\ secret' = s
    /\ LET err == IF Len(s) % 2 # 0
                  THEN "secret must be a multiple of 2 bytes"
                  ELSE splitCheck(t, nn, Len(s) \div 2)
       IN  IF err # "nil"
           THEN /\ pc' = "splitDone"
                /\ sret' = [err |-> err, shares |-> <<>>]
                /\ UNCHANGED <<xvals, z, shares>>
           ELSE /\ pc' = "distinctXes"
                /\ xvals' = [j \in 1 .. nn |-> 0]
                /\ z' = [j \in 1 .. nn |-> 0]
                /\ shares' = [j \in 1 .. nn |-> <<>>]
                /\ UNCHANGED sret
    /\ UNCHANGED <<stream, i, polys, combineVars, g>>

\* what follows distinctXes in split: the shares get their x-coordinate
afterXes(xv) ==
    [j \in 1 .. Len(xv) |-> <<xv[j]>> \o [c \in 1 .. Len(secretWords) |-> 0]]

\* one pass of distinctXes's loop with the word v read into xvals[i]: v is
\* kept and the loop goes on to the next index, or ends, or v is read again
distinctXesPass(v) ==
    /\ xvals' = [xvals EXCEPT ![i] = v]
    /\ IF accepted(v)
       THEN /\ i' = i + 1
            /\ IF i + 1 > n
               THEN /\ pc' = "splitSingle"
                    /\ shares' = afterXes(xvals')
               ELSE UNCHANGED <<pc, shares>>
       ELSE UNCHANGED <<i, pc, shares>>

\* one pass of distinctXes's loop on a random source of at most MaxStream
\* words, MaxRejects of them rejected
DrawX(v) ==
    /\ pc = "distinctXes"
    /\ Len(stream) < MaxStream
    /\ IF accepted(v) THEN TRUE ELSE Len(stream) - (i - 1) < MaxRejects
    /\ stream' = Append(stream, v)
    /\ distinctXesPass(v)
    /\ UNCHANGED <<d, threshold, n, secret, polys, z, sret, combineVars, g>>

\* a failed read after which Split returns the shares as far as they are
\* filled
ReadFailsReturnsShares ==
    /\ pc \in {"distinctXes", "splitSingle"}
    /\ pc = "splitSingle" => threshold > 1
    /\ pc' = "splitDone"
    /\ sret' = [err |-> "EOF", shares |-> byteShares(shares)]
    /\ UNCHANGED <<d, threshold, n, secret, stream, xvals, i, polys, z, shares,
                   combineVars, g>>

\* a read of the random source fails: distinctXes or splitSingle returns the
\* error, and so do split and Dealer.Split
ReadFails ==
    /\ pc \in {"distinctXes", "splitSingle"}
    /\ pc = "splitSingle" => threshold > 1
    /\ pc' = "splitDone"
    /\ sret' = [err |-> "EOF", shares |-> <<>>]
    /\ UNCHANGED <<d, threshold, n, secret, stream, xvals, i, polys, z, shares,
                   combineVars, g>>

\* split's copy of z with the column index off by one: shares[j][i] = z[j]
storeColumnAtI(sh, w, zz) ==
    [j \in 1 .. Len(sh) |-> [sh[j] EXCEPT ![w] = zz[j]]]

\* split's copy of z into the shares for word w (0-based i = w - 1):
\* shares[j][i+1] = z[j]
storeColumn(sh, w, zz) ==
    [j \in 1 .. Len(sh) |-> [sh[j] EXCEPT ![w + 1] = zz[j]]]

\* split's loop with splitSingle taking the words read as the coefficients
\* threshold-1 .. 1
SplitSingleReversed(c) ==
    /\ pc = "splitSingle"
    /\ Len(stream) + Len(c) <= MaxStream
    /\ LET w == Len(polys) + 1
           polynomial == <<secretWords[w]>> \o [k \in 1 .. Len(c) |-> c[Len(c) + 1 - k]]
           zz == [j \in 1 .. n |-> evalPoly(polynomial, xvals[j])]
           sh == storeColumn(shares, w, zz)
       IN  /\ stream' = stream \o c
           /\ polys' = Append(polys, polynomial)
           /\ z' = zz
           /\ shares' = sh
           /\ IF w = Len(secretWords)
              THEN /\ pc' = "splitDone"
                   /\ sret' = [err |-> "nil", shares |-> byteShares(sh)]
              ELSE UNCHANGED <<pc, sret>>
    /\ UNCHANGED <<d, threshold, n, secret, xvals, i, combineVars, g>>

\* one pass of split's loop over the words of the secret: splitSingle with
\* the words c read as the coefficients 1 .. threshold-1, then the copy of z
\* into the shares; after the last word split returns and Dealer.Split
\* encodes the shares
SplitSingle(c) ==
    /\ pc = "splitSingle"
    /\ Len(stream) + Len(c) <= MaxStream
    /\ LET w == Len(polys) + 1
           polynomial == <<secretWords[w]>> \o c
           zz == [j \in 1 .. n |-> evalPoly(polynomial, xvals[j])]
           sh == storeColumn(shares, w, zz)
       IN  /\ stream' = stream \o c
           /\ polys' = Append(polys, polynomial)
           /\ z' = zz
           /\ shares' = sh
           /\ IF w = Len(secretWords)
              THEN /\ pc' = "splitDone"
                   /\ sret' = [err |-> "nil", shares |-> byteShares(sh)]
              ELSE UNCHANGED <<pc, sret>>
    /\ UNCHANGED <<d, threshold, n, secret, xvals, i, combineVars, g>>

\* Dealer.Combine
Combine(bshares) ==
    /\ d' = init(d)
    /\ cin' = bshares
    /\ cret' = DealerCombine(d', bshares)
    /\ pc' = "combineDone"
    /\ UNCHANGED <<splitVars, g>>

\* the lists of k of the nn shares a Split returned, in any order
SelectionTable ==
    [nn \in 0 .. MaxN + 1 |->
        {q \in SeqsUpTo(1 .. nn, nn) :
            Len(q) >= 1 /\ \A a, b \in 1 .. Len(q) : a # b => q[a] # q[b]}]
Selections(nn) == SelectionTable[nn]

\* a caller combines some of the shares a Split returned
CombineReturned ==
    /\ pc = "splitDone"
    /\ sret.err = "nil"
    /\ \E sel \in Selections(n) :
          Combine([k \in 1 .. Len(sel) |-> sret.shares[sel[k]]])

\* the calls and the reads with their inputs
Secrets == SeqsUpTo(CallerBytes, MaxSecretLen)
SplitCall ==
    /\ pc = "idle"
    /\ \E t \in -1 .. MaxN, nn \in -1 .. MaxN, s \in Secrets : Split(t, nn, s)
DrawXCall ==
    /\ pc = "distinctXes"
    /\ \E v \in RandWords : DrawX(v)
SplitSingleCall ==
    /\ pc = "splitSingle"
    /\ \E c \in [1 .. threshold - 1 -> RandWords] : SplitSingle(c)

\* a caller combines a list of byte shares: up to MaxRagged shares of any
\* lengths, or up to MaxShares shares of the longest even length
ByteShares == SeqsUpTo(CallerBytes, MaxShareLen)
WholeShares == [1 .. 2 * (MaxShareLen \div 2) -> CallerBytes]
CombineAny ==
    /\ pc = "idle"
    /\ \/ \E k \in 0 .. MaxRagged :
            \E bshares \in [1 .. k -> ByteShares] : Combine(bshares)
       \/ \E k \in 0 .. MaxShares :
            \E bshares \in [1 .. k -> WholeShares] : Combine(bshares)

\* a call of Dealer.Split
NextSplit == SplitCall \/ DrawXCall \/ ReadFails \/ SplitSingleCall
SpecSplit == Init /\ [][NextSplit]_vars

\* a call of Dealer.Split, then a call of Dealer.Combine on shares it returned
Next == SplitCall \/ DrawXCall \/ ReadFails \/ SplitSingleCall \/ CombineReturned
Spec == Init /\ [][Next]_vars

\* a call of Dealer.Combine on any list of byte shares
NextCombine == CombineAny
SpecCombine == Init /\ [][NextCombine]_vars

(***************************************************************************)
(* One word: split stands after distinctXes, with xvals any n distinct     *)
(* non-zero words and a secret of one word, and runs splitSingle.          *)
(***************************************************************************)
DistinctNonZero(nn) ==
    {q \in [1 .. nn -> RandWords \ {0}] :
        \A a, b \in 1 .. nn : a # b => q[a] # q[b]}

InitSingle ==
    /\ d = init([F |-> 0, Rand |-> "nil", ByteOrder |-> "nil"])
    /\ pc = "splitSingle"
    /\ n \in 1 .. MaxN
    /\ threshold \in 1 .. n
    /\ secret \in [1 .. 2 -> CallerBytes]
    /\ xvals \in DistinctNonZero(n)
    /\ stream = xvals
    /\ i = n + 1
    /\ polys = <<>>
    /\ z = [j \in 1 .. n |-> 0]
    /\ shares = afterXes(xvals)
    /\ sret = NoReturn
    /\ cin = <<>>
    /\ cret = NoResult
    /\ g = <<>>

NextSingle == SplitSingleCall
SpecSingle == InitSingle /\ [][NextSingle]_vars

(***************************************************************************)
(* The loop of distinctXes on a random source that never fails and yields  *)
(* every word of the field again and again.  What was read is not kept, so *)
(* that the loop may go on for ever; n is any count that passes Split's    *)
(* checks, up to the number of words of the field.                         *)
(***************************************************************************)
DrawXAgain(v) ==
    /\ pc = "distinctXes"
    /\ distinctXesPass(v)
    /\ UNCHANGED <<d, threshold, n, secret, stream, polys, z, sret,
                   combineVars, g>>

SplitAnyN ==
    /\ pc = "idle"
    /\ \E t \in -1 .. FieldSize, nn \in -1 .. FieldSize, s \in Secrets :
          Split(t, nn, s)
DrawXAgainCall ==
    /\ pc = "distinctXes"
    /\ \E v \in Word : DrawXAgain(v)

NextDraw == SplitAnyN \/ DrawXAgainCall
SpecDraw ==
    /\ Init
    /\ [][NextDraw]_vars
    /\ WF_vars(SplitAnyN)
    /\ \A v \in Word : WF_vars(DrawXAgain(v))

(***************************************************************************)
(* Calls on one Dealer from several goroutines.  The calls share nothing   *)
(* but the Dealer, and nothing orders them; a step is one access of a      *)
(* Dealer field.  Dealer.init tests each field and sets it when unset;     *)
(* then Split and Combine read the fields.  F is one word.  Rand and       *)
(* ByteOrder are interface values of two words, written one word at a      *)
(* time: a goroutine that reads one in the middle of another's write gets  *)
(* a torn value, which may compare equal to nil or not, and using it may   *)
(* work or fail.                                                           *)
(***************************************************************************)
Goroutines == 1 .. NumGoroutines

\* the Dealer fields a call accesses, in order: init's three tests, then the
\* reads of Split (ByteOrder, F and Rand for split, ByteOrder) or of Combine
\* (ByteOrder, F for combine, ByteOrder)
Accesses(op) ==
    <<"F", "Rand", "ByteOrder">>
        \o (IF op = "Split" THEN <<"ByteOrder", "F", "Rand", "ByteOrder">>
            ELSE <<"ByteOrder", "F", "ByteOrder">>)
InitAccesses == 3

\* the field goroutine gi accesses next, or "none" after its last access
NextField(gi) ==
    IF g[gi].at > Len(Accesses(g[gi].op)) THEN "none"
    ELSE Accesses(g[gi].op)[g[gi].at]

DefaultOf(f) ==
    IF f = "F" THEN defaultField
    ELSE IF f = "Rand" THEN defaultRandSrc ELSE defaultByteOrder

\* a Dealer with any of its fields set
AnyDealers ==
    [F : {0, defaultField}, Rand : {"nil", "reader"},
     ByteOrder : {"nil", "LittleEndian"}]

InitConc ==
    /\ d \in AnyDealers
    /\ g \in [Goroutines ->
                [op : {"Split", "Combine"}, at : {1}, w : {"none"},
                 res : {"running"}]]
    /\ pc = "idle"
    /\ threshold = 0
    /\ n = 0
    /\ secret = <<>>
    /\ stream = <<>>
    /\ xvals = <<>>
    /\ i = 1
    /\ polys = <<>>
    /\ z = <<>>
    /\ shares = <<>>
    /\ sret = NoReturn
    /\ cin = <<>>
    /\ cret = NoResult

callVars == <<pc, threshold, n, secret, stream, xvals, i, polys, z, shares,
              sret, cin, cret>>

\* the Dealer field f holds its zero value; it holds a half-written
\* interface value
IsUnset(f) == IF f = "F" THEN d.F = 0 ELSE d[f] = "nil"
IsTorn(f) == f # "F" /\ d[f] = "torn"

\* Dealer.init: if d.F == 0, if d.Rand == nil, if d.ByteOrder == nil
GoTest(gi) ==
    /\ g[gi].w = "none"
    /\ g[gi].at <= InitAccesses
    /\ LET f == NextField(gi)
       IN  \/ /\ IsUnset(f) \/ IsTorn(f)
              /\ g' = [g EXCEPT ![gi].w = "write"]
           \/ /\ ~IsUnset(f)
              /\ g' = [g EXCEPT ![gi].at = @ + 1]
    /\ UNCHANGED <<d, callVars>>

\* Dealer.init: d.F = defaultField, and the first word of d.Rand =
\* defaultRandSrc or of d.ByteOrder = defaultByteOrder
GoWrite(gi) ==
    /\ g[gi].w = "write"
    /\ LET f == NextField(gi)
       IN  IF f = "F"
           THEN /\ d' = [d EXCEPT ![f] = DefaultOf(f)]
                /\ g' = [g EXCEPT ![gi].w = "none", ![gi].at = @ + 1]
           ELSE /\ d' = [d EXCEPT ![f] = IF @ = "nil" THEN "torn" ELSE @]
                /\ g' = [g EXCEPT ![gi].w = "mid"]
    /\ UNCHANGED callVars

\* Dealer.init: the second word of the interface value
GoWriteEnd(gi) ==
    /\ g[gi].w = "mid"
    /\ d' = [d EXCEPT ![NextField(gi)] = DefaultOf(NextField(gi))]
    /\ g' = [g EXCEPT ![gi].w = "none", ![gi].at = @ + 1]
    /\ UNCHANGED callVars

\* Split's and Combine's reads of d.ByteOrder, d.F and d.Rand; after the
\* last one the call returns
GoUse(gi) ==
    /\ g[gi].w = "none"
    /\ g[gi].at > InitAccesses
    /\ NextField(gi) # "none"
    /\ \E r \in {"ok", "panic"} :
          /\ r = "panic" => IsTorn(NextField(gi))
          /\ g' = [g EXCEPT ![gi].at = @ + 1,
                            ![gi].res =
                                IF g[gi].res = "panic" \/ r = "panic"
                                THEN "panic"
                                ELSE IF g[gi].at = Len(Accesses(g[gi].op))
                                     THEN "ok" ELSE "running"]
    /\ UNCHANGED <<d, callVars>>

GoTestStep == \E gi \in Goroutines : GoTest(gi)
GoWriteStep == \E gi \in Goroutines : GoWrite(gi)
GoWriteEndStep == \E gi \in Goroutines : GoWriteEnd(gi)
GoUseStep == \E gi \in Goroutines : GoUse(gi)

NextConc == GoTestStep \/ GoWriteStep \/ GoWriteEndStep \/ GoUseStep
SpecConc == InitConc /\ [][NextConc]_vars

(***************************************************************************)
(* Properties.                                                             *)
(***************************************************************************)
\* the words of a byte buffer in the Dealer's byte order
WordsOf(buf) == Decode(buf, d.ByteOrder, Len(buf) \div 2).words

\* x to the power e, and the value at x of the polynomial with the
\* coefficients c[1] (constant term), c[2], ..., as sums of products
RECURSIVE Pow(_, _)
Pow(x, e) == IF e = 0 THEN 1 ELSE Mul(x, Pow(x, e - 1))
RECURSIVE PolyAtFrom(_, _, _)
PolyAtFrom(c, x, k) ==
    IF k > Len(c) THEN 0
    ELSE Add(Mul(c[k], Pow(x, k - 1)), PolyAtFrom(c, x, k + 1))
PolyAt(c, x) == PolyAtFrom(c, x, 1)

SplitSucceeded == pc \in {"splitDone", "combineDone"} /\ sret.err = "nil"

\* C1: Round-trip.  Combine applied to k >= threshold of the shares a
\* successful Split returned, in any order, returns the secret and no error.
RoundTrip ==
    (pc = "combineDone" /\ Len(cin) >= threshold) =>
        (cret.kind = "ok" /\ cret.err = "nil" /\ cret.secret = secret)

\* three reordered shares of a two-word secret split with threshold 2 by a
\* little-endian Dealer give the secret back
RoundTripWitness ==
    /\ pc = "combineDone"
    /\ threshold = 2 /\ n = 3 /\ Len(secret) = 4
    /\ d.ByteOrder = "LittleEndian"
    /\ Len(cin) = 3 /\ cin[1] = sret.shares[3] /\ cin[2] = sret.shares[1]
    /\ polys[1][2] # 0 /\ polys[2][2] # 0
    /\ cret.kind = "ok" /\ cret.secret = secret

\* C3, as claimed: Combine applied to fewer than threshold of the returned
\* shares returns an error or a value different from the secret.
InsufficientNeverSecret ==
    (pc = "combineDone" /\ threshold >= 2 /\ Len(cin) < threshold) =>
        (cret.kind = "error" \/ cret.secret # secret)

\* the coefficients k .. threshold-1 of every word's polynomial are zero
HighCoefficientsZero(k) ==
    \A w \in 1 .. Len(polys) : \A j \in k + 1 .. threshold : polys[w][j] = 0

\* C3, amended: Combine applied to k < threshold of the returned shares
\* returns a value and no error; the value is the secret when the
\* coefficients c_k .. c_{threshold-1} of every word are zero; and for
\* k = threshold-1 word w of the value is word w of the secret exactly when
\* c_{threshold-1} of word w is zero.
InsufficientShares ==
    (pc = "combineDone" /\ threshold >= 2 /\ Len(cin) < threshold) =>
        /\ cret.kind = "ok"
        /\ Len(cret.secret) = Len(secret)
        /\ HighCoefficientsZero(Len(cin)) => cret.secret = secret
        /\ Len(cin) = threshold - 1 =>
              \A w \in 1 .. Len(polys) :
                  (WordsOf(cret.secret)[w] = secretWords[w])
                      <=> (polys[w][threshold] = 0)

\* two of three shares split with threshold 3 and a non-zero leading
\* coefficient give a value that is not the secret
InsufficientSharesWitness ==
    /\ pc = "combineDone"
    /\ threshold = 3 /\ Len(cin) = 2
    /\ polys[1][3] # 0
    /\ cret.kind = "ok" /\ cret.secret # secret

\* C4: Distinctness.  When distinctXes returns without error, and when Split
\* returns shares, the n x-coordinates are pairwise distinct and non-zero,
\* whatever words the random source gave.
Distinctness ==
    LET ok(xs) == /\ Len(xs) = n
                  /\ \A a, b \in 1 .. n :
                        xs[a] # 0 /\ (a # b => xs[a] # xs[b])
    IN  /\ pc = "splitSingle" => ok(xvals)
        /\ SplitSucceeded =>
              ok([j \in 1 .. Len(sret.shares) |-> WordsOf(sret.shares[j])[1]])

\* a Split of three shares succeeded on a stream whose second word repeats
\* the first
DistinctnessWitness ==
    /\ pc = "splitDone" /\ sret.err = "nil"
    /\ n = 3 /\ Len(stream) >= 4
    /\ stream[2] = stream[1]

\* the parameters Split rejects
InvalidSplit ==
    threshold < 1 \/ n < 1 \/ threshold > n \/ Len(secret) % 2 # 0 \/ Len(secret) = 0

\* C5: Split validation.  With threshold < 1, n < 1, threshold > n or a
\* secret of odd or zero length, Split returns an error and no shares and
\* has read nothing from the random source.
SplitValidation ==
    (pc # "idle" /\ InvalidSplit) =>
        /\ pc = "splitDone"
        /\ sret.err \notin {"nil", "none", "EOF"}
        /\ sret.shares = <<>>
        /\ stream = <<>>

\* Split returned an error for an empty secret with valid threshold and n
SplitValidationWitness ==
    /\ pc = "splitDone"
    /\ threshold = 2 /\ n = 3 /\ secret = <<>>
    /\ sret.err = "nil secret" /\ stream = <<>>

\* C9: Share format.  A successful Split returns n shares of len(secret)+2
\* bytes; the first word of share j is x_j, and for every word w of the
\* secret there is one polynomial of degree at most threshold-1 with that
\* word as constant term whose value at x_j is word w+1 of share j, for
\* every j.
ShareFormat ==
    SplitSucceeded =>
        /\ Len(sret.shares) = n
        /\ \A j \in 1 .. n :
              /\ Len(sret.shares[j]) = Len(secret) + 2
              /\ WordsOf(sret.shares[j])[1] = xvals[j]
        /\ \A w \in 1 .. Len(secret) \div 2 :
              \E c \in [1 .. threshold - 1 -> Word] :
                  \A j \in 1 .. n :
                      WordsOf(sret.shares[j])[w + 1]
                          = PolyAt(<<secretWords[w]>> \o c, xvals[j])

\* a little-endian Dealer split a two-word secret into three shares with
\* threshold 2 and non-zero coefficients
ShareFormatWitness ==
    /\ pc = "splitDone" /\ sret.err = "nil"
    /\ n = 3 /\ threshold = 2 /\ Len(secret) = 4
    /\ d.ByteOrder = "LittleEndian"
    /\ polys[1][2] # 0 /\ polys[2][2] # 0
    /\ secretWords[1] # secretWords[2]

\* the shares given to Combine have one length, with room for a y-word
EqualLengthWithY ==
    /\ Len(cin) >= 1
    /\ Len(cin[1]) >= 4
    /\ \A r \in 1 .. Len(cin) : Len(cin[r]) = Len(cin[1])

\* C7: Duplicate-share rejection.  For a list of equal-length shares with
\* at least one y-word in which two shares have the same x-coordinate,
\* Combine returns the singular-matrix error and no value.
DuplicateRejected ==
    (/\ pc = "combineDone"
     /\ EqualLengthWithY
     /\ \E a, b \in 1 .. Len(cin) :
           a # b /\ WordsOf(cin[a])[1] = WordsOf(cin[b])[1]) =>
        /\ cret.kind = "error"
        /\ cret.err = "matrix is singular"
        /\ cret.secret = <<>>

\* the first and the third of three shares have the same x-coordinate and
\* different y-values, the second another x-coordinate
DuplicateRejectedWitness ==
    /\ pc = "combineDone"
    /\ EqualLengthWithY
    /\ Len(cin) = 3
    /\ WordsOf(cin[1])[1] = WordsOf(cin[3])[1]
    /\ WordsOf(cin[1])[2] # WordsOf(cin[3])[2]
    /\ WordsOf(cin[2])[1] # WordsOf(cin[1])[1]
    /\ cret.err = "matrix is singular"

\* the number of draws of the coefficients c_1 .. c_{threshold-1} with which
\* splitSingle gives the shares J of the secret word sw the y-values in z
Draws(sw, J) ==
    Cardinality({c \in [1 .. threshold - 1 -> Word] :
                    \A j \in J : evalPoly(<<sw>> \o c, xvals[j]) = z[j]})

\* C2: Secrecy.  With threshold >= 2, the y-values that splitSingle gave any
\* at most threshold-1 shares are given by as many draws of the coefficients
\* under every other secret word as under the secret word that was split.
\* (Every secret word and every draw is a state of SpecSingle, so this
\* covers every vector of y-values that some secret word can give.)
Secrecy ==
    (pc = "splitDone" /\ sret.err = "nil" /\ threshold >= 2) =>
        \A J \in SUBSET (1 .. n) :
            (J # {} /\ Cardinality(J) <= threshold - 1) =>
                \A sw \in Word : Draws(sw, J) = Draws(secretWords[1], J)

\* a non-zero secret word was split with threshold 3 and non-zero
\* coefficients into three shares
SecrecyWitness ==
    /\ pc = "splitDone" /\ sret.err = "nil"
    /\ threshold = 3 /\ n = 3
    /\ secretWords[1] # 0 /\ polys[1][2] # 0 /\ polys[1][3] # 0
    /\ Draws(secretWords[1], {1, 3}) = 1

\* C6: Combine validation.  Dealer.Combine returns an error when the list of
\* shares is empty or two of the shares differ in length, wherever they are
\* in the list.  (Stated as: it returns no secret then.  A run-time panic
\* is no error return either, but it is not what this claim is about.)
CombineValidation ==
    (/\ pc = "combineDone"
     /\ \/ Len(cin) = 0
        \/ \E a, b \in 1 .. Len(cin) : Len(cin[a]) # Len(cin[b])) =>
        cret.kind # "ok"

\* the reorderings of a list of shares
Reorderings(bshares) ==
    {[k \in 1 .. Len(bshares) |-> bshares[q[k]]] :
        q \in {p \in Selections(Len(bshares)) : Len(p) = Len(bshares)}}

\* the two outcomes are the same secret, or both no secret (an error; a
\* run-time panic counts as one here)
SameOutcome(r1, r2) ==
    /\ (r1.kind = "ok") <=> (r2.kind = "ok")
    /\ r1.kind = "ok" => r1.secret = r2.secret

\* C8: Permutation invariance.  Combine returns the same outcome for a list
\* of shares and for every reordering of it.
PermutationInvariance ==
    pc = "combineDone" =>
        \A re \in Reorderings(cin) :
            SameOutcome(DealerCombine(d, re), cret)

\* goroutine p's next step writes the field that goroutine q's next step
\* reads or writes
WritesWhileAccessed(p, q) ==
    /\ g[p].w \in {"write", "mid"}
    /\ NextField(q) = NextField(p)

\* C10: Concurrent reuse.  When calls of Split and Combine run at the same
\* time on one Dealer, no call writes a Dealer field while another call
\* reads or writes it.
ConcurrentReuse ==
    \A p, q \in DOMAIN g : p # q => ~WritesWhileAccessed(p, q)

\* the words of the shares given to Combine, as Dealer.Combine decodes them:
\* len(shares[0])/2 words of every share
cinWords ==
    [r \in 1 .. Len(cin) |->
        Decode(cin[r], d.ByteOrder, Len(cin[1]) \div 2).words]

\* the x-coordinates of the shares given to Combine and their y-values for
\* word w of the secret
cinX == [r \in 1 .. Len(cin) |-> cinWords[r][1]]
cinY(w) == [r \in 1 .. Len(cin) |-> cinWords[r][w + 1]]

\* the product of the polynomial c and the polynomial x + a
TimesLinear(c, a) ==
    [j \in 1 .. Len(c) + 1 |->
        Add(IF j > 1 THEN c[j - 1] ELSE 0,
            IF j <= Len(c) THEN Mul(a, c[j]) ELSE 0)]

\* the Lagrange basis polynomial of point r: the product over the points
\* s # r of (x + xs[s]) / (xs[r] + xs[s]), built from point s on
RECURSIVE BasisFrom(_, _, _, _)
BasisFrom(xs, r, s, acc) ==
    IF s > Len(xs) THEN acc
    ELSE BasisFrom(xs, r, s + 1,
             IF s = r THEN acc
             ELSE LET q == TimesLinear(acc, xs[s])
                      c == Inv(Add(xs[r], xs[s]))
                  IN  [j \in 1 .. Len(q) |-> Mul(q[j], c)])

\* the Lagrange polynomial through the points (xs[r], ys[r]): the sum of
\* the basis polynomials times ys[r], built from point r on
RECURSIVE LagrangeFrom(_, _, _, _)
LagrangeFrom(xs, ys, r, acc) ==
    IF r > Len(xs) THEN acc
    ELSE LET b == BasisFrom(xs, r, 1, <<1>>)
         IN  LagrangeFrom(xs, ys, r + 1,
                 [j \in 1 .. Len(acc) |-> Add(acc[j], Mul(ys[r], b[j]))])
Lagrange(xs, ys) == LagrangeFrom(xs, ys, 1, [j \in 1 .. Len(xs) |-> 0])

\* Combine was given k >= 1 shares that decode to an x-coordinate and at
\* least one y-word, with pairwise distinct x-coordinates
DistinctPoints ==
    /\ pc = "combineDone"
    /\ Len(cin) >= 1
    /\ Len(cin[1]) >= 4
    /\ \A r \in 1 .. Len(cin) : Len(cin[r]) >= 2 * (Len(cin[1]) \div 2)
    /\ \A a, b \in 1 .. Len(cin) : a # b => cinX[a] # cinX[b]

\* C11: Word-combine is interpolation at zero.  For k >= 1 points with
\* pairwise distinct x-coordinates (zero allowed) and any y-values,
\* combineSingle returns no error and the constant term of the polynomial
\* of degree at most k-1 through the k points (there is one such
\* polynomial, the Lagrange polynomial, which is checked here to have k
\* coefficients and to pass through every point).
Interpolation ==
    DistinctPoints =>
        /\ cret.kind = "ok" /\ cret.err = "nil"
        /\ Len(cret.secret) = 2 * (Len(cin[1]) \div 2 - 1)
        /\ \A w \in 1 .. Len(cin[1]) \div 2 - 1 :
              LET L == Lagrange(cinX, cinY(w))
              IN  /\ Len(L) = Len(cin)
                  /\ \A r \in 1 .. Len(cin) : PolyAt(L, cinX[r]) = cinY(w)[r]
                  /\ WordsOf(cret.secret)[w] = L[1]

\* three points, none at zero, on a polynomial of degree two whose constant
\* term is none of the three y-values
InterpolationWitness ==
    /\ DistinctPoints
    /\ Len(cin) = 3
    /\ \A r \in 1 .. 3 : cinX[r] # 0
    /\ Lagrange(cinX, cinY(1))[3] # 0
    /\ \A r \in 1 .. 3 : WordsOf(cret.secret)[1] # cinY(1)[r]
    /\ cret.kind = "ok"

\* C12: Termination of point generation.  For every n that passes Split's
\* checks, on a random source that never fails and keeps yielding every
\* word of the field, the loop of distinctXes ends and split goes on with n
\* x-coordinates.
DrawsTerminate ==
    (pc = "distinctXes") ~> (pc = "splitSingle" /\ Len(xvals) = n /\ i = n + 1)

\* the same for the n below the number of words of the field
DrawsTerminateBelowFieldSize ==
    (pc = "distinctXes" /\ n < FieldSize) ~>
        (pc = "splitSingle" /\ Len(xvals) = n /\ i = n + 1)

\* Split has read all the words it reads: n accepted x-coordinates and the
\* coefficients of every word of the secret
AllWordsRead == i = n + 1 /\ Len(polys) = Len(secretWords)

\* C13: Random-source failure.  When Split, called with valid parameters,
\* returns before it has read all its words, a read of an x-coordinate or of
\* the coefficients of some word having failed, it returns the error of the
\* read and no shares, however far split's own shares were filled.
ReadFailure ==
    (pc = "splitDone" /\ ~InvalidSplit /\ ~AllWordsRead) =>
        /\ sret.err = "EOF"
        /\ sret.shares = <<>>

\* the read of the coefficients of the second word failed after the first
\* word was written to split's shares
ReadFailureWitness ==
    /\ pc = "splitDone" /\ ~InvalidSplit
    /\ Len(secretWords) = 2 /\ Len(polys) = 1 /\ i = n + 1
    /\ \E j \in 1 .. n : shares[j][2] # 0
    /\ sret.err = "EOF" /\ sret.shares = <<>>

\* the x-coordinates that the words st give from position p on, xs being
\* those taken before: a word is taken unless it is zero or already taken,
\* until nn are taken; with the number of words gone through
RECURSIVE TakeXes(_, _, _, _)
TakeXes(st, nn, p, xs) ==
    IF Len(xs) = nn \/ p > Len(st) THEN [xs |-> xs, read |-> p - 1]
    ELSE IF st[p] = 0 \/ \E j \in 1 .. Len(xs) : xs[j] = st[p]
         THEN TakeXes(st, nn, p + 1, xs)
         ELSE TakeXes(st, nn, p + 1, Append(xs, st[p]))

\* the words that follow the x-coordinates in st, as the polynomial of word
\* w of the secret sw: the coefficients 1 .. t-1 after the constant term
PolyOfWord(st, read, t, sw, w) ==
    <<sw[w]>> \o SubSeq(st, read + (w - 1) * (t - 1) + 1, read + w * (t - 1))

\* the word shares that threshold t, count nn, the secret words sw and the
\* words st of the random source determine
SharesOfStream(t, nn, sw, st) ==
    LET tx == TakeXes(st, nn, 1, <<>>)
    IN  [j \in 1 .. nn |->
            <<tx.xs[j]>> \o
            [w \in 1 .. Len(sw) |->
                PolyAt(PolyOfWord(st, tx.read, t, sw, w), tx.xs[j])]]

\* C14: Deterministic consumption order.  After a successful Split, x_j is
\* the j-th word of the random source that was neither zero nor read
\* before; the threshold-1 words read for each word of the secret, in the
\* order of the words, are the coefficients 1 .. threshold-1 of its
\* polynomial; n + rejected + (threshold-1) * words were read; and the
\* shares returned are those that threshold, n, the secret and the words
\* read determine, so that two runs on the same of these return the same
\* shares.
Consumption ==
    (pc = "splitDone" /\ sret.err = "nil") =>
        LET tx == TakeXes(stream, n, 1, <<>>)
            expected == SharesOfStream(threshold, n, secretWords, stream)
        IN  /\ xvals = tx.xs
            /\ tx.read = n + Cardinality({p \in 1 .. tx.read :
                              \/ stream[p] = 0
                              \/ \E q \in 1 .. p - 1 : stream[q] = stream[p]})
            /\ \A w \in 1 .. Len(secretWords) :
                  polys[w] = PolyOfWord(stream, tx.read, threshold, secretWords, w)
            /\ Len(stream) = tx.read + (threshold - 1) * Len(secretWords)
            /\ Len(sret.shares) = n
            /\ \A j \in 1 .. n : WordsOf(sret.shares[j]) = expected[j]

\* a Split of a two-word secret with threshold 2 read a zero, the two
\* x-coordinates and two different non-zero coefficients
ConsumptionWitness ==
    /\ pc = "splitDone" /\ sret.err = "nil"
    /\ n = 2 /\ threshold = 2 /\ Len(secret) = 4
    /\ Len(stream) = 5 /\ stream[1] = 0
    /\ stream[4] # 0 /\ stream[5] # 0 /\ stream[4] # stream[5]

\* C15: Combine always returns normally.  For every non-empty list of byte
\* shares Dealer.Combine returns a secret or an error; it does not end in
\* a run-time panic.
CombineReturns ==
    (pc = "combineDone" /\ Len(cin) >= 1) => cret.kind \in {"ok", "error"}

=============================================================================
